---------------------------- MODULE Spec2Model ----------------------------
(***************************************************************************)
(* A model of fetch.py, the web page downloader: download(urls),           *)
(* download_assets, store_metadata, read_metadata_file and fetch_metadata. *)
(*                                                                         *)
(* Strings are sequences of tokens.  The separators "/" and "?" are tokens *)
(* of their own, and so is a file extension (".png"), so that              *)
(* os.path.basename, str.split('?', 1), str.endswith and urljoin are       *)
(* computed on the text and not assumed.                                   *)
(***************************************************************************)
EXTENDS Integers, Sequences, FiniteSets, TLC

\* ------------------------------------------------------------------ bounds

\* Longest list of URLs given on the command line.
MaxUrls == 2

\* ------------------------------------------------------- program constants

METADATA_FILENAME == <<"metadata.json">>

POPULAR_EXTENSIONS ==
    {".jpg", ".jpeg", ".png", ".gif", ".bmp", ".svg", ".webp", ".mp4", ".avi",
     ".mkv", ".mov", ".wmv", ".flv", ".webm", ".js", ".css"}

\* tag name -> the attribute that holds the asset's reference
ASSET_TAG_ATTRIBUTES == [img |-> "src", script |-> "src", link |-> "href"]

None == <<"None">>

\* ------------------------------------------------------------ text helpers

\* The greatest index of token t in s, 0 when s does not hold it.
LastIndexOf(s, t) ==
    LET hits == {k \in 1..Len(s) : s[k] = t}
    IN  IF hits = {} THEN 0 ELSE CHOOSE k \in hits : \A m \in hits : m <= k

\* The least index of token t in s, Len(s) + 1 when s does not hold it.
FirstIndexOf(s, t) ==
    LET hits == {k \in 1..Len(s) : s[k] = t}
    IN  IF hits = {} THEN Len(s) + 1
        ELSE CHOOSE k \in hits : \A m \in hits : k <= m

\* os.path.basename: the text after the last "/".
basename(s) == SubSeq(s, LastIndexOf(s, "/") + 1, Len(s))

\* os.path.dirname: the text before the last "/".
dirname(s) == SubSeq(s, 1, LastIndexOf(s, "/") - 1)

\* s.split('?', 1)[0]: the text before the first "?".
strip_query(s) == SubSeq(s, 1, FirstIndexOf(s, "?") - 1)

\* str.endswith(tuple of suffixes): case-sensitive suffix match.
endswith(s, suffixes) == Len(s) > 0 /\ s[Len(s)] \in suffixes

\* os.path.join(a, b) for a relative b.
path_join(a, b) == IF a = <<>> THEN b ELSE a \o <<"/">> \o b

\* urllib.parse.urljoin for the reference shapes the pages hold: an absolute
\* reference stands, a reference starting with "/" replaces the base's path,
\* any other replaces the last segment of the base's path.
urljoin(base, ref) ==
    LET b == strip_query(base)
    IN  IF ref = <<>> THEN base
        ELSE IF ref[1] \in {"http:", "https:"} THEN ref
        ELSE IF ref[1] = "/" THEN SubSeq(b, 1, 4) \o ref
        ELSE IF LastIndexOf(b, "/") <= 3 THEN b \o <<"/">> \o ref
        ELSE SubSeq(b, 1, LastIndexOf(b, "/")) \o ref

\* validators.url: a scheme, "//" and a non-empty host at the least.
is_valid_url(url) ==
    /\ Len(url) >= 4
    /\ url[1] \in {"http:", "https:"}
    /\ url[2] = "/"
    /\ url[3] = "/"
    /\ url[4] \notin {"/", "?"}

\* ------------------------------------------------------------ dictionaries

\* A Python dict: the sequence of its items in insertion order, keys unique.
DictKeys(d) == {d[k].key : k \in 1..Len(d)}

DictGet(d, key) == d[CHOOSE k \in 1..Len(d) : d[k].key = key].val

\* d.setdefault(key, val) in place of d[key] = val
DictSet_keeps_first(d, key, val) ==
    IF key \in DictKeys(d) THEN d ELSE Append(d, [key |-> key, val |-> val])

\* d = {key: val} in place of d[key] = val
DictSet_drops_others(d, key, val) == <<[key |-> key, val |-> val]>>

\* d[key] = val
DictSet(d, key, val) ==
    IF key \in DictKeys(d)
    THEN [k \in 1..Len(d) |->
            IF d[k].key = key THEN [key |-> key, val |-> val] ELSE d[k]]
    ELSE Append(d, [key |-> key, val |-> val])

\* json.dump of a dict: the object's members, in order.
json_dump(d) == [type |-> "json", members |-> d]

RECURSIVE load_members(_, _)
load_members(members, d) ==
    IF members = <<>> THEN d
    ELSE load_members(Tail(members),
                      DictSet(d, Head(members).key, Head(members).val))

\* json.load of an object: a member repeated keeps its last value.
json_load(content) == load_members(content.members, <<>>)

\* -------------------------------------------------------------- filesystem

NoFiles == [p \in {} |-> None]

WriteFile(fs, path, content) ==
    [p \in (DOMAIN fs) \cup {path} |-> IF p = path THEN content ELSE fs[p]]

Exists(fs, ds, path) == path \in DOMAIN fs \/ path \in ds

\* open(path, 'w') succeeds: the path is no directory and its parent is one.
CanOpenForWrite(ds, path) ==
    /\ path # <<>>
    /\ path \notin ds
    /\ dirname(path) = <<>> \/ dirname(path) \in ds

\* ------------------------------------------------------------------- pages

Tag(name, attr, val) == [name |-> name, attr |-> attr, val |-> val]

\* tag.get(attr): None when the tag has no such attribute.
tag_get(tag, attr) == IF tag.attr = attr THEN tag.val ELSE None

\* Python truth of tag.get(attr): neither None nor the empty string.
Truthy(v) == v # None /\ v # <<>>

UrlPage == <<"https:", "/", "/", "example.com", "/", "page">>
UrlBlog == <<"https:", "/", "/", "example.com", "/", "a", "/", "blog">>
UrlRoot == <<"https:", "/", "/", "example.com", "/">>
UrlNoScheme == <<"example.com", "/", "page">>

\* The URLs a command line is drawn from.
UrlUniverse == {UrlPage, UrlBlog, UrlRoot, UrlNoScheme}

UrlLists == UNION {[1..n -> UrlUniverse] : n \in 1..MaxUrls}

\* One anchor with a reference, one image.
DocSimple ==
    << Tag("a", "href", <<"https:", "/", "/", "x.com">>),
       Tag("img", "src", <<"pic", ".png">>) >>

\* Anchors without a reference, a stylesheet with a query, an image with an
\* upper-case extension, a script without src.
DocMixed ==
    << Tag("a", "name", <<"top">>),
       Tag("a", "href", <<>>),
       Tag("link", "href", <<"style", ".css", "?", "v=2">>),
       Tag("img", "src", <<"photo", ".JPG">>),
       Tag("script", "type", <<"module">>) >>

\* A <base href>, two eligible assets.
DocBase ==
    << Tag("base", "href", <<"https:", "/", "/", "cdn.example.com", "/">>),
       Tag("img", "src", <<"img", "/", "x", ".jpg">>),
       Tag("script", "src", <<"app", ".js">>),
       Tag("a", "href", <<"/", "next">>),
       Tag("a", "href", <<"https:", "/", "/", "y.org">>) >>

\* No asset tag at all.
DocPlain == << Tag("a", "href", <<"/", "about">>) >>

Docs == {DocSimple, DocMixed, DocBase, DocPlain}

Statuses == {200, 404, 500}

\* What requests.get returns for a page.
PageResponses == [status_code : Statuses, content : Docs]

\* What requests.get returns for an asset; its bytes are named by its URL.
AssetResponses(full_url) ==
    [status_code : Statuses, content : {[type |-> "bytes", body |-> full_url]}]

NoResponse == [status_code |-> 0, content |-> <<>>]

\* BeautifulSoup(content).find_all(names): the indices of the tags, in order.
RECURSIVE find_all(_, _, _)
find_all(soup, names, k) ==
    IF k > Len(soup) THEN <<>>
    ELSE (IF soup[k].name \in names THEN <<k>> ELSE <<>>)
            \o find_all(soup, names, k + 1)

\* soup.find(name): the index of the first such tag, 0 for None.
find(soup, name) ==
    LET hits == find_all(soup, {name}, 1)
    IN  IF hits = <<>> THEN 0 ELSE hits[1]

RECURSIVE count_links(_, _)
count_links(soup, anchors) ==
    IF anchors = <<>> THEN 0
    ELSE (IF Truthy(tag_get(soup[Head(anchors)], "href")) THEN 1 ELSE 0)
            + count_links(soup, Tail(anchors))

get_number_of_links(content) == count_links(content, find_all(content, {"a"}, 1))

\* response.status_code != 200, negated
StatusOk_below_500(r) == r.status_code < 500

StatusOk(r) == r.status_code = 200

\* The page's base URL: <base href> when present and non-empty.
BaseUrl(url, soup) ==
    LET base_tag == find(soup, "base")
    IN  IF base_tag # 0 /\ Truthy(tag_get(soup[base_tag], "href"))
        THEN soup[base_tag].val
        ELSE url

\* Never creates the directory.
EnsureDirectory_never(fs, ds, directory) == ds

\* if not os.path.exists(directory): os.makedirs(directory)
EnsureDirectory(fs, ds, directory) ==
    IF Exists(fs, ds, directory) THEN ds ELSE ds \cup {directory}

\* os.makedirs('') raises FileNotFoundError.
MakedirsRaises(fs, ds, directory) ==
    ~Exists(fs, ds, directory) /\ directory = <<>>

\* ---------------------------------------------------------------- metadata

\* Rewrites the file as {} whether or not it exists.
read_metadata_file_truncates(fs) == WriteFile(fs, METADATA_FILENAME, json_dump(<<>>))

\* read_metadata_file's effect on the files: an absent file is created as {}.
read_metadata_file_effect(fs) ==
    IF METADATA_FILENAME \in DOMAIN fs THEN fs
    ELSE WriteFile(fs, METADATA_FILENAME, json_dump(<<>>))

\* read_metadata_file's result.
read_metadata_file(fs) == json_load(read_metadata_file_effect(fs)[METADATA_FILENAME])

\* new_metadata with 'site' and 'last_fetch' set.
NewRecord(url, new_metadata, t) ==
    [links |-> new_metadata.links, site |-> url, last_fetch |-> t]

\* store_metadata's effect on the files when nothing else runs.
store_metadata(fs, url, new_metadata, t) ==
    LET metadata == read_metadata_file(fs)
    IN  WriteFile(read_metadata_file_effect(fs), METADATA_FILENAME,
                  json_dump(DictSet(metadata, url, NewRecord(url, new_metadata, t))))

\* ------------------------------------------------------------------- state

VARIABLES
    mode,            \* "download" or "metadata": args.metadata
    urls,            \* args.urls
    i,               \* the position of the for loop over urls
    pc,              \* where the run stands
    response,        \* download: the page's response
    link_count,      \* download: get_number_of_links(response.content)
    soup,            \* download_assets: the parsed, mutable document
    assets,          \* download_assets: the asset tags, as indices of soup
    base_url,        \* download_assets
    directory,       \* download_assets
    j,               \* download_assets: the position of the loop over assets
    asset_response,  \* download_assets: the asset's response
    metadata,        \* fetch_metadata: the store as read
    files,           \* the working directory's files: path -> content
    dirs,            \* the working directory's directories
    now,             \* datetime.now()
    exc,             \* the exception that ended the run, if any
    netlog,          \* history: the requests sent
    printed,         \* history: the lines printed
    outcome,         \* history: what became of each URL so far
    persisted,       \* history: the URLs (positions) whose page file is written
    recorded,        \* history: the URLs (positions) whose record is stored
    files0,          \* history: files when the run began
    dirs0,           \* history: dirs when the run began
    failed,          \* history: the tags of this page whose asset came back non-200
    rpc,             \* concurrent store_metadata: each process's position
    rargs,           \* concurrent store_metadata: each process's arguments
    rloaded,         \* concurrent store_metadata: each process's metadata
    rhist            \* history: the order of the loads and writes

progvars == <<mode, urls, i, pc, response, link_count, soup, assets, base_url,
              directory, j, asset_response, metadata, exc>>
histvars == <<netlog, printed, outcome, persisted, recorded, files0, dirs0,
              failed>>
racevars == <<rpc, rargs, rloaded, rhist>>
vars == <<progvars, histvars, racevars, files, dirs, now>>

Procs == {1, 2}

NoExc == [type |-> "", at |-> ""]

\* The working directory a run may start in: empty, holding an empty store,
\* or as a download of UrlPage (DocSimple, its image fetched) left it at time 0.
FsEmpty == [files |-> NoFiles, dirs |-> {}]

FsEmptyStore ==
    [files |-> read_metadata_file_effect(NoFiles), dirs |-> {}]

FsAfterPage ==
    LET page == basename(UrlPage)
        pic  == path_join(page, <<"pic", ".png">>)
        doc  == [DocSimple EXCEPT ![2].val = pic]
        f1   == WriteFile(NoFiles, pic,
                    [type |-> "bytes", body |-> urljoin(UrlPage, <<"pic", ".png">>)])
        f2   == WriteFile(f1, page \o <<".html">>, [type |-> "html", body |-> doc])
    IN  [files |-> store_metadata(f2, page, [links |-> 1], 0), dirs |-> {page}]

InitFs == {FsEmpty, FsEmptyStore, FsAfterPage}

RaceIdle ==
    /\ rpc = [p \in Procs |-> "off"]
    /\ rargs = [p \in Procs |-> [url |-> <<>>, links |-> 0]]
    /\ rloaded = [p \in Procs |-> <<>>]
    /\ rhist = <<>>

Init ==
    /\ mode \in {"download", "metadata"}
    /\ urls \in UrlLists
    /\ i = 1
    /\ pc = IF mode = "download" THEN "loop" ELSE "read"
    /\ response = NoResponse
    /\ link_count = 0
    /\ soup = <<>>
    /\ assets = <<>>
    /\ base_url = <<>>
    /\ directory = <<>>
    /\ j = 1
    /\ asset_response = NoResponse
    /\ metadata = <<>>
    /\ \E fs \in InitFs : files = fs.files /\ dirs = fs.dirs
    /\ now = 1
    /\ exc = NoExc
    /\ netlog = {}
    /\ printed = <<>>
    /\ outcome = <<>>
    /\ persisted = {}
    /\ recorded = {}
    /\ files0 = files
    /\ dirs0 = dirs
    /\ failed = {}
    /\ RaceIdle

\* An exception nothing catches ends the run.
Raise(type, at) ==
    /\ pc' = "aborted"
    /\ exc' = [type |-> type, at |-> at]

\* ---------------------------------------------------------------- download

url == urls[i]

\* The 'continue' is missing: the invalid URL is requested like any other.
SkipInvalid_falls_through ==
    /\ mode = "download" /\ pc = "loop" /\ i <= Len(urls)
    /\ ~is_valid_url(url)
    /\ printed' = Append(printed, <<"Invalid url", url>>)
    /\ \E r \in PageResponses : response' = r
    /\ netlog' = netlog \cup {[kind |-> "page", url |-> url]}
    /\ pc' = "status"
    /\ UNCHANGED <<mode, urls, i, link_count, soup, assets, base_url,
                   directory, j, asset_response, metadata, exc>>
    /\ UNCHANGED <<outcome, persisted, recorded, files0, dirs0, failed>>
    /\ UNCHANGED <<racevars, files, dirs, now>>

\* for url in urls: if not is_valid_url(url): print; continue
SkipInvalid ==
    /\ mode = "download" /\ pc = "loop" /\ i <= Len(urls)
    /\ ~is_valid_url(url)
    /\ printed' = Append(printed, <<"Invalid url", url>>)
    /\ outcome' = Append(outcome, "invalid")
    /\ i' = i + 1
    /\ UNCHANGED <<mode, urls, pc, response, link_count, soup, assets, base_url,
                   directory, j, asset_response, metadata, exc>>
    /\ UNCHANGED <<netlog, persisted, recorded, files0, dirs0, failed>>
    /\ UNCHANGED <<racevars, files, dirs, now>>

\* requests.get(url, headers=USER_AGENT_HEADER) returns a response
PageGet ==
    /\ mode = "download" /\ pc = "loop" /\ i <= Len(urls)
    /\ is_valid_url(url)
    /\ \E r \in PageResponses : response' = r
    /\ netlog' = netlog \cup {[kind |-> "page", url |-> url]}
    /\ pc' = "status"
    /\ UNCHANGED <<mode, urls, i, link_count, soup, assets, base_url,
                   directory, j, asset_response, metadata, exc>>
    /\ UNCHANGED <<printed, outcome, persisted, recorded, files0, dirs0, failed>>
    /\ UNCHANGED <<racevars, files, dirs, now>>

\* requests.get(url, ...) raises (no HTTP response): nothing catches it
PageGetRaises ==
    /\ mode = "download" /\ pc = "loop" /\ i <= Len(urls)
    /\ is_valid_url(url)
    /\ netlog' = netlog \cup {[kind |-> "page", url |-> url]}
    /\ outcome' = Append(outcome, "transport_error")
    /\ Raise("ConnectionError", "page_get")
    /\ UNCHANGED <<mode, urls, i, response, link_count, soup, assets, base_url,
                   directory, j, asset_response, metadata>>
    /\ UNCHANGED <<printed, persisted, recorded, files0, dirs0, failed>>
    /\ UNCHANGED <<racevars, files, dirs, now>>

\* if response.status_code != 200: print; continue
SkipNon200 ==
    /\ pc = "status"
    /\ ~StatusOk(response)
    /\ printed' = Append(printed, <<"Failed to download url", url>>)
    /\ outcome' = Append(outcome, "non200")
    /\ i' = i + 1
    /\ pc' = "loop"
    /\ UNCHANGED <<mode, urls, response, link_count, soup, assets, base_url,
                   directory, j, asset_response, metadata, exc>>
    /\ UNCHANGED <<netlog, persisted, recorded, files0, dirs0, failed>>
    /\ UNCHANGED <<racevars, files, dirs, now>>

\* link_count = get_number_of_links(...); download_assets up to its loop:
\* the soup, the assets, the base URL, the directory (created when absent)
BeginAssets ==
    /\ pc = "status"
    /\ StatusOk(response)
    /\ link_count' = get_number_of_links(response.content)
    /\ soup' = response.content
    /\ assets' = find_all(response.content, DOMAIN ASSET_TAG_ATTRIBUTES, 1)
    /\ directory' = basename(url)
    /\ outcome' = Append(outcome, "ok200")
    /\ j' = 1
    /\ failed' = {}
    /\ IF MakedirsRaises(files, dirs, basename(url))
       THEN /\ Raise("FileNotFoundError", "makedirs")
            /\ UNCHANGED <<dirs, base_url>>
       ELSE /\ dirs' = EnsureDirectory(files, dirs, basename(url))
            /\ base_url' = BaseUrl(url, response.content)
            /\ pc' = "assets"
            /\ UNCHANGED exc
    /\ UNCHANGED <<mode, urls, i, response, asset_response, metadata>>
    /\ UNCHANGED <<netlog, printed, persisted, recorded, files0, dirs0>>
    /\ UNCHANGED <<racevars, files, now>>

\* The asset the loop of download_assets stands at, and what it derives.
asset == soup[assets[j]]
link_attribute == ASSET_TAG_ATTRIBUTES[asset.name]
asset_url == asset.val
full_url == urljoin(base_url, asset_url)
file_name == strip_query(basename(full_url))
file_path == path_join(directory, file_name)

\* if not asset.get(link_attribute): continue
AssetSkipNoRef ==
    /\ pc = "assets" /\ j <= Len(assets)
    /\ ~Truthy(tag_get(asset, link_attribute))
    /\ j' = j + 1
    /\ UNCHANGED <<mode, urls, i, pc, response, link_count, soup, assets,
                   base_url, directory, asset_response, metadata, exc>>
    /\ UNCHANGED <<histvars, racevars, files, dirs, now>>

\* if not file_name.endswith(POPULAR_EXTENSIONS): continue
AssetSkipExtension ==
    /\ pc = "assets" /\ j <= Len(assets)
    /\ Truthy(tag_get(asset, link_attribute))
    /\ ~endswith(file_name, POPULAR_EXTENSIONS)
    /\ j' = j + 1
    /\ UNCHANGED <<mode, urls, i, pc, response, link_count, soup, assets,
                   base_url, directory, asset_response, metadata, exc>>
    /\ UNCHANGED <<histvars, racevars, files, dirs, now>>

\* requests.get(full_url) returns a response
AssetGet ==
    /\ pc = "assets" /\ j <= Len(assets)
    /\ Truthy(tag_get(asset, link_attribute))
    /\ endswith(file_name, POPULAR_EXTENSIONS)
    /\ \E r \in AssetResponses(full_url) : asset_response' = r
    /\ netlog' = netlog \cup {[kind |-> "asset", url |-> full_url]}
    /\ pc' = "asset_status"
    /\ UNCHANGED <<mode, urls, i, response, link_count, soup, assets,
                   base_url, directory, j, metadata, exc>>
    /\ UNCHANGED <<printed, outcome, persisted, recorded, files0, dirs0, failed>>
    /\ UNCHANGED <<racevars, files, dirs, now>>

\* requests.get(full_url) raises: nothing catches it
AssetGetRaises ==
    /\ pc = "assets" /\ j <= Len(assets)
    /\ Truthy(tag_get(asset, link_attribute))
    /\ endswith(file_name, POPULAR_EXTENSIONS)
    /\ netlog' = netlog \cup {[kind |-> "asset", url |-> full_url]}
    /\ Raise("ConnectionError", "asset_get")
    /\ UNCHANGED <<mode, urls, i, response, link_count, soup, assets,
                   base_url, directory, j, asset_response, metadata>>
    /\ UNCHANGED <<printed, outcome, persisted, recorded, files0, dirs0, failed>>
    /\ UNCHANGED <<racevars, files, dirs, now>>

\* Takes every status but a server error for a success.
AssetStatusOk_below_500(r) == r.status_code < 500

\* response.status_code != 200, negated, for an asset
AssetStatusOk(r) == r.status_code = 200

\* if response.status_code != 200: continue
AssetSkipNon200 ==
    /\ pc = "asset_status"
    /\ ~AssetStatusOk(asset_response)
    /\ j' = j + 1
    /\ pc' = "assets"
    /\ UNCHANGED <<mode, urls, i, response, link_count, soup, assets,
                   base_url, directory, asset_response, metadata, exc>>
    /\ failed' = failed \cup {assets[j]}
    /\ UNCHANGED <<netlog, printed, outcome, persisted, recorded, files0, dirs0>>
    /\ UNCHANGED <<racevars, files, dirs, now>>

\* the asset's bytes are written to file_path and the tag points at file_path
AssetSave ==
    /\ pc = "asset_status"
    /\ AssetStatusOk(asset_response)
    /\ IF CanOpenForWrite(dirs, file_path)
       THEN /\ files' = WriteFile(files, file_path, asset_response.content)
            /\ soup' = [soup EXCEPT ![assets[j]].val = file_path]
            /\ j' = j + 1
            /\ pc' = "assets"
            /\ UNCHANGED exc
       ELSE /\ Raise("OSError", "asset_write")
            /\ UNCHANGED <<files, soup, j>>
    /\ UNCHANGED <<mode, urls, i, response, link_count, assets,
                   base_url, directory, asset_response, metadata>>
    /\ UNCHANGED <<histvars, racevars, dirs, now>>

\* return str(soup); the page is written to '<basename(url)>.html'
WritePage ==
    /\ pc = "assets" /\ j > Len(assets)
    /\ LET path == basename(url) \o <<".html">>
       IN  IF CanOpenForWrite(dirs, path)
           THEN /\ files' = WriteFile(files, path, [type |-> "html", body |-> soup])
                /\ persisted' = persisted \cup {i}
                /\ pc' = "store"
                /\ UNCHANGED exc
           ELSE /\ Raise("OSError", "page_write")
                /\ UNCHANGED <<files, persisted>>
    /\ UNCHANGED <<mode, urls, i, response, link_count, soup, assets,
                   base_url, directory, j, asset_response, metadata>>
    /\ UNCHANGED <<netlog, printed, outcome, recorded, files0, dirs0, failed>>
    /\ UNCHANGED <<racevars, dirs, now>>

\* store_metadata(file_name, {'links': link_count}), then the next url
StoreMetadata ==
    /\ pc = "store"
    /\ files' = store_metadata(files, basename(url), [links |-> link_count], now)
    /\ now' = now + 1
    /\ recorded' = recorded \cup {i}
    /\ i' = i + 1
    /\ pc' = "loop"
    /\ UNCHANGED <<mode, urls, response, link_count, soup, assets,
                   base_url, directory, j, asset_response, metadata, exc>>
    /\ UNCHANGED <<netlog, printed, outcome, persisted, files0, dirs0, failed>>
    /\ UNCHANGED <<racevars, dirs>>

\* the for loop over urls is exhausted
Finish ==
    /\ pc \in {"loop", "lookup"} /\ i > Len(urls)
    /\ pc' = "done"
    /\ UNCHANGED <<mode, urls, i, response, link_count, soup, assets,
                   base_url, directory, j, asset_response, metadata, exc>>
    /\ UNCHANGED <<histvars, racevars, files, dirs, now>>

\* ---------------------------------------------------------- fetch_metadata

\* metadata = read_metadata_file()
FetchMetadataRead ==
    /\ mode = "metadata" /\ pc = "read"
    /\ metadata' = read_metadata_file(files)
    /\ files' = read_metadata_file_effect(files)
    /\ pc' = "lookup"
    /\ UNCHANGED <<mode, urls, i, response, link_count, soup, assets,
                   base_url, directory, j, asset_response, exc>>
    /\ UNCHANGED <<histvars, racevars, dirs, now>>

\* if base_url not in metadata: print('Data not found ...'); continue
FetchMetadataMiss ==
    /\ pc = "lookup" /\ i <= Len(urls)
    /\ basename(url) \notin DictKeys(metadata)
    /\ printed' = Append(printed, <<"Data not found for url", url>>)
    /\ i' = i + 1
    /\ UNCHANGED <<mode, urls, pc, response, link_count, soup, assets,
                   base_url, directory, j, asset_response, metadata, exc>>
    /\ UNCHANGED <<netlog, outcome, persisted, recorded, files0, dirs0, failed>>
    /\ UNCHANGED <<racevars, files, dirs, now>>

\* print(metadata[base_url])
FetchMetadataShow ==
    /\ pc = "lookup" /\ i <= Len(urls)
    /\ basename(url) \in DictKeys(metadata)
    /\ printed' = Append(printed, <<"record", DictGet(metadata, basename(url))>>)
    /\ i' = i + 1
    /\ UNCHANGED <<mode, urls, pc, response, link_count, soup, assets,
                   base_url, directory, j, asset_response, metadata, exc>>
    /\ UNCHANGED <<netlog, outcome, persisted, recorded, files0, dirs0, failed>>
    /\ UNCHANGED <<racevars, files, dirs, now>>

Next ==
    \/ SkipInvalid
    \/ PageGet
    \/ PageGetRaises
    \/ SkipNon200
    \/ BeginAssets
    \/ AssetSkipNoRef
    \/ AssetSkipExtension
    \/ AssetGet
    \/ AssetGetRaises
    \/ AssetSkipNon200
    \/ AssetSave
    \/ WritePage
    \/ StoreMetadata
    \/ Finish
    \/ FetchMetadataRead
    \/ FetchMetadataMiss
    \/ FetchMetadataShow

\* One run of the program: download(urls) or fetch_metadata(urls).
Spec == Init /\ [][Next]_vars

\* ------------------------------------------- store_metadata, two processes

\* Two processes, each in one call store_metadata(url, {'links': links}); a
\* step is one operation on the file, the unit the filesystem orders.

RaceUrls == {basename(UrlPage), basename(UrlBlog)}

RaceLinks == {0, 2}

InitRace ==
    /\ mode = "download"
    /\ urls = <<>>
    /\ i = 1
    /\ pc = "store"
    /\ response = NoResponse
    /\ link_count = 0
    /\ soup = <<>>
    /\ assets = <<>>
    /\ base_url = <<>>
    /\ directory = <<>>
    /\ j = 1
    /\ asset_response = NoResponse
    /\ metadata = <<>>
    /\ \E fs \in InitFs : files = fs.files /\ dirs = fs.dirs
    /\ now = 1
    /\ exc = NoExc
    /\ netlog = {}
    /\ printed = <<>>
    /\ outcome = <<>>
    /\ persisted = {}
    /\ recorded = {}
    /\ files0 = files
    /\ dirs0 = dirs
    /\ failed = {}
    /\ rpc = [p \in Procs |-> "exists"]
    /\ rargs \in [Procs -> [url : RaceUrls, links : RaceLinks]]
    /\ rloaded = [p \in Procs |-> <<>>]
    /\ rhist = <<>>

\* read_metadata_file: if not os.path.exists(METADATA_FILENAME)
RaceExists(self) ==
    /\ rpc[self] = "exists"
    /\ rpc' = [rpc EXCEPT ![self] =
                 IF METADATA_FILENAME \in DOMAIN files THEN "load" ELSE "create"]
    /\ UNCHANGED <<progvars, histvars, rargs, rloaded, rhist, files, dirs, now>>

\* read_metadata_file: open(METADATA_FILENAME, 'w'); json.dump({}, file)
RaceCreate(self) ==
    /\ rpc[self] = "create"
    /\ files' = WriteFile(files, METADATA_FILENAME, json_dump(<<>>))
    /\ rpc' = [rpc EXCEPT ![self] = "load"]
    /\ UNCHANGED <<progvars, histvars, rargs, rloaded, rhist, dirs, now>>

\* read_metadata_file: metadata = json.load(file)
RaceLoad(self) ==
    /\ rpc[self] = "load"
    /\ rloaded' = [rloaded EXCEPT ![self] = json_load(files[METADATA_FILENAME])]
    /\ rhist' = Append(rhist, [proc |-> self, op |-> "load", record |-> None])
    /\ rpc' = [rpc EXCEPT ![self] = "write"]
    /\ UNCHANGED <<progvars, histvars, rargs, files, dirs, now>>

\* Merges into the store as it is on disk at the write.
MergedMetadata_rereads(self, record) ==
    DictSet(json_load(files[METADATA_FILENAME]), rargs[self].url, record)

\* metadata[url] = new_metadata, metadata being what this process read
MergedMetadata(self, record) == DictSet(rloaded[self], rargs[self].url, record)

\* store_metadata: the record is completed, merged and the store written back
RaceWrite(self) ==
    /\ rpc[self] = "write"
    /\ LET record == NewRecord(rargs[self].url, [links |-> rargs[self].links], now)
       IN  /\ files' = WriteFile(files, METADATA_FILENAME,
                                 json_dump(MergedMetadata(self, record)))
           /\ rhist' = Append(rhist, [proc |-> self, op |-> "write", record |-> record])
    /\ now' = now + 1
    /\ rpc' = [rpc EXCEPT ![self] = "done"]
    /\ UNCHANGED <<progvars, histvars, rargs, rloaded, dirs>>

NextRace ==
    \E self \in Procs :
        \/ RaceExists(self)
        \/ RaceCreate(self)
        \/ RaceLoad(self)
        \/ RaceWrite(self)

\* Two concurrent calls of store_metadata on one working directory.
SpecRace == InitRace /\ [][NextRace]_vars

\* ------------------------------------------------------------------ claims

\* The persisted store as the file holds it, read off the file's members.
StoredKeys(fs) ==
    IF METADATA_FILENAME \in DOMAIN fs
    THEN {fs[METADATA_FILENAME].members[k].key :
            k \in 1..Len(fs[METADATA_FILENAME].members)}
    ELSE {}

StoredCount(fs, key) ==
    Cardinality({k \in 1..Len(fs[METADATA_FILENAME].members) :
                    fs[METADATA_FILENAME].members[k].key = key})

StoredRecord(fs, key) ==
    LET m == fs[METADATA_FILENAME].members
    IN  m[CHOOSE k \in 1..Len(m) : m[k].key = key].val

NotFoundPrinted(k) ==
    /\ k \in 1..Len(printed)
    /\ printed[k][1] = "Data not found for url"
    /\ printed[k][2] = urls[k]

\* C1, as stated: fetch_metadata for a URL whose Page Identifier is not in the
\* store reports not-found and leaves the filesystem as it was, metadata.json
\* neither created nor modified.
C1_MetadataModeLeavesFilesUnchanged ==
    (mode = "metadata" /\ \E k \in 1..Len(printed) : NotFoundPrinted(k))
        => (files = files0 /\ dirs = dirs0)

\* C1, amended: fetch_metadata reports not-found for every URL whose Page
\* Identifier is not in the store, never modifies an existing metadata.json and
\* touches no other path; when metadata.json is absent its first step creates
\* it holding the empty object.
C1_MetadataModeOnlyCreatesEmptyStore ==
    mode = "metadata" =>
        /\ dirs = dirs0
        /\ \A k \in 1..(i - 1) :
              basename(urls[k]) \notin StoredKeys(files0) => NotFoundPrinted(k)
        /\ IF METADATA_FILENAME \in DOMAIN files0 \/ pc = "read"
           THEN files = files0
           ELSE /\ DOMAIN files = DOMAIN files0 \cup {METADATA_FILENAME}
                /\ \A f \in DOMAIN files0 : files[f] = files0[f]
                /\ files[METADATA_FILENAME] = [type |-> "json", members |-> <<>>]

C1_Witness ==
    /\ mode = "metadata" /\ pc = "done"
    /\ METADATA_FILENAME \notin DOMAIN files0
    /\ METADATA_FILENAME \in DOMAIN files
    /\ NotFoundPrinted(1)

\* C2: a page whose fetch returns a status other than 200 is skipped: the step
\* that handles the response changes no file and no directory (so no page
\* file, no asset directory, no metadata record) and goes on to the next URL.
C2_Non200PageSkipped ==
    [][(pc = "status" /\ response.status_code # 200)
          => /\ files' = files
             /\ dirs' = dirs
             /\ i' = i + 1
             /\ pc' = "loop"
             /\ exc' = exc]_vars

C2_Witness ==
    /\ pc = "done"
    /\ outcome = <<"non200", "ok200">>
    /\ recorded = {2}
    /\ files0 = NoFiles
    /\ DOMAIN files = {basename(urls[2]) \o <<".html">>, METADATA_FILENAME}

\* C3, as stated: a page fetch that fails with a transport error is skipped
\* and the run goes on; the run is never aborted by it.
C3_TransportErrorSkipped ==
    \A k \in 1..Len(outcome) : outcome[k] = "transport_error" => pc # "aborted"

\* C4: for a URL that fails validation the loop sends no request, writes no
\* file, creates no directory, and goes on to the next URL.
C4_InvalidUrlSkipped ==
    [][(mode = "download" /\ pc = "loop" /\ i <= Len(urls) /\ ~is_valid_url(urls[i]))
          => /\ netlog' = netlog
             /\ files' = files
             /\ dirs' = dirs
             /\ i' = i + 1
             /\ pc' = "loop"
             /\ exc' = exc]_vars

C4_Witness ==
    /\ pc = "done"
    /\ outcome = <<"invalid", "ok200">>
    /\ recorded = {2}
    /\ netlog = {[kind |-> "page", url |-> urls[2]]}

\* C5: after store_metadata for a Page Identifier, also when the store already
\* held a record under it (a second call), the persisted store holds exactly
\* one record under the identifier: the links of this call, site = identifier.
C5_UpsertKeepsOneRecord ==
    (pc = "loop" /\ i > 1 /\ (i - 1) \in recorded) =>
        LET p == basename(urls[i - 1])
        IN  /\ StoredCount(files, p) = 1
            /\ StoredRecord(files, p).links = link_count
            /\ StoredRecord(files, p).site = p
            /\ StoredRecord(files, p).last_fetch = now - 1

C5_Witness ==
    /\ pc = "loop" /\ i = 3 /\ recorded = {1, 2}
    /\ basename(urls[1]) = basename(urls[2])
    /\ basename(urls[2]) \in StoredKeys(files0)
    /\ StoredRecord(files0, basename(urls[2])).links = 1
    /\ link_count = 2
    /\ StoredCount(files, basename(urls[2])) = 1

\* C6: a store_metadata call for Page Identifier p changes only the record
\* under p: the key set becomes the previous one plus p, every other record
\* is what it was, and no other file changes.
C6_UpsertTouchesOneRecord ==
    [][pc = "store" =>
          LET p == basename(urls[i])
          IN  /\ StoredKeys(files') = StoredKeys(files) \cup {p}
              /\ \A k \in StoredKeys(files) \ {p} :
                    /\ StoredCount(files', k) = 1
                    /\ StoredRecord(files', k) = StoredRecord(files, k)
              /\ \A f \in (DOMAIN files) \ {METADATA_FILENAME} :
                    f \in DOMAIN files' /\ files'[f] = files[f]
              /\ DOMAIN files' = DOMAIN files \cup {METADATA_FILENAME}]_vars

C6_Witness ==
    /\ pc = "loop" /\ (i - 1) \in recorded
    /\ basename(UrlPage) \in StoredKeys(files0)
    /\ basename(urls[i - 1]) = basename(UrlBlog)
    /\ StoredKeys(files) = {basename(UrlPage), basename(UrlBlog)}
    /\ StoredRecord(files, basename(UrlPage)) = StoredRecord(files0, basename(UrlPage))

\* C7: when an asset's GET returns a status other than 200 the step writes no
\* file, leaves the tag's reference as it was and goes on to the next asset
\* tag; the page written afterwards still holds the original reference.
C7_Non200AssetLeftAlone ==
    /\ [][(pc = "asset_status" /\ asset_response.status_code # 200)
            => /\ files' = files
               /\ dirs' = dirs
               /\ soup' = soup
               /\ j' = j + 1
               /\ pc' = "assets"
               /\ exc' = exc]_vars
    /\ [](pc = "store" =>
            \A t \in failed :
                files[basename(urls[i]) \o <<".html">>].body[t].val
                    = response.content[t].val)

C7_Witness ==
    /\ pc = "done"
    /\ Len(urls) = 1 /\ recorded = {1}
    /\ failed = {2}
    /\ files[basename(urls[1]) \o <<".html">>].body[2] = DocBase[2]
    /\ files[basename(urls[1]) \o <<".html">>].body[3] # DocBase[3]
    /\ basename(urls[1]) \in StoredKeys(files)

\* C8, as stated: the per-page directory is created lazily, only if an asset
\* reaches the write step: a directory the run created holds an asset file
\* once the page's assets are done.
C8_DirectoryOnlyWithAsset ==
    pc \in {"store", "loop", "done"} =>
        \A d \in dirs \ dirs0 : \E f \in DOMAIN files : dirname(f) = d

\* C8, amended: the directory is created eagerly: once download_assets is past
\* its first lines, before any asset tag is looked at, a path named after the
\* Page Identifier exists, whatever asset tags the page has.
C8_DirectoryCreatedEagerly ==
    pc \in {"assets", "asset_status", "store"} =>
        (basename(urls[i]) \in dirs \/ basename(urls[i]) \in DOMAIN files)

C8_Witness ==
    /\ pc = "store"
    /\ assets = <<>>
    /\ basename(urls[i]) \in dirs \ dirs0
    /\ \A f \in DOMAIN files : dirname(f) # basename(urls[i])

\* C9: two processes in store_metadata for different Page Identifiers: when
\* both have read the store before either writes, the store they leave holds
\* the later writer's record and not the earlier writer's: an update is lost.
C9_RaceDropsUpdate ==
    ( /\ \A p \in Procs : rpc[p] = "done"
      /\ rargs[1].url # rargs[2].url
      /\ Len(rhist) = 4
      /\ rhist[1].op = "load" /\ rhist[2].op = "load" )
    => LET first == rhist[3].record
           last  == rhist[4].record
       IN  /\ last.site \in StoredKeys(files)
           /\ StoredRecord(files, last.site) = last
           /\ \/ first.site \notin StoredKeys(files)
              \/ StoredRecord(files, first.site) # first

C9_Witness ==
    /\ \A p \in Procs : rpc[p] = "done"
    /\ rargs[1].url # rargs[2].url
    /\ Len(rhist) = 4
    /\ rhist[1].op = "load" /\ rhist[2].op = "load"
    /\ rhist[3].record.site \notin StoredKeys(files)
    /\ rhist[4].record.site \in StoredKeys(files)

\* C10, as stated: every valid URL whose fetch returns 200, an empty final
\* path segment included, has its page file written and then its record
\* stored, whatever its assets do; the page file comes before the record.
C10_Every200PagePersistedAndRecorded ==
    /\ recorded \subseteq persisted
    /\ pc \in {"done", "aborted"} =>
          \A k \in 1..Len(outcome) :
              outcome[k] = "ok200" => (k \in persisted /\ k \in recorded)

=============================================================================
